---- MODULE Spec2Model ----
(***************************************************************************)
(* Model of the PaddleOCR-VL service: the page pipeline of                 *)
(* pdf_processor.py (pdf_to_images, has_meaningful_content,                *)
(* optimize_image_for_ocr, images_to_markdown) and the two request         *)
(* handlers of server.py (ocr_endpoint, chat_completions).                 *)
(***************************************************************************)
EXTENDS Integers, Sequences, FiniteSets, TLC

VARIABLES
    probe,          \* arguments of a direct call of has_meaningful_content
    probe_out,      \* what that call returned
    running,        \* the request whose coroutine holds the event loop
    pc,             \* position of each request's handler
    req,            \* each request as received
    total_pages,    \* pdf_to_images: len(pdf)
    page_num,       \* pdf_to_images: loop index (0-indexed)
    images,         \* pdf_to_images: images
    page_numbers,   \* pdf_to_images: page_numbers
    all_stats,      \* pdf_to_images: all_stats
    result,         \* outcome of the handler's pdf_to_images call
    ocr_results,    \* handler: ocr_results
    response,       \* what the handler answered
    engine_calls,   \* history: every run_ocr_on_image call, in order
    pdf_bytes,      \* handler: pdf_bytes
    classify_calls, \* history: number of has_meaningful_content calls per request
    handles         \* module globals model, processor, pdf_processor

probeVars == <<probe, probe_out>>
pipeVars == <<total_pages, page_num, images, page_numbers, all_stats>>
serverVars == <<running, pc, req, pdf_bytes, result, ocr_results, response,
                engine_calls, classify_calls>>
vars == <<probeVars, pipeVars, serverVars, handles>>

----------------------------------------------------------------------------
(* Bounds of the model *)

MaxPages == 3          \* longest PDF
MaxDim == 7            \* largest width/height of a directly classified image
MaxTile == 3           \* largest tile_size of a direct classification
MaxMinTiles == 2       \* largest min_informative_tiles of a direct classification
MaxTexts == 3          \* longest ocr_results of a direct images_to_markdown call
MaxNormDim == 24       \* largest width/height of a directly normalized small image
MaxNormSize == 16      \* largest max_size of a direct normalization of a small image
MaxPairPages == 2      \* longest PDF of two requests in flight together

(* Program constants *)

tile_size == 64
variance_threshold == 100
min_informative_tiles == 5
max_size == 2048
DPI == 200

----------------------------------------------------------------------------
(* Page images.  An image is its size and its texture; the texture stands  *)
(* for the pixel content and decides what numpy's var() returns on a tile. *)

Textures == {"blank", "faint", "text", "header"}

Image(w, h, t) == [width |-> w, height |-> h, texture |-> t]

\* gray[y:y+tile, x:x+tile].var(): 0 on a uniform region, small on scan
\* noise, large where glyph edges alternate dark and light.  A "header" page
\* has text in its first pixel row of tiles only.
TileVar(image, y, x, tile) ==
    CASE image.texture = "blank"  -> 0
      [] image.texture = "faint"  -> 6
      [] image.texture = "text"   -> 16256
      [] image.texture = "header" -> IF y = 0 THEN 16256 ELSE 0

\* range(start, stop, step) for step > 0
Range(start, stop, step) ==
    IF stop <= start THEN {}
    ELSE { start + i * step : i \in 0 .. ((stop - start + step - 1) \div step) - 1 }

\* The (y, x) origins the two nested loops visit.
TileOrigins(image, tile) ==
    { <<y, x>> : y \in Range(0, image.height - tile, tile),
                 x \in Range(0, image.width - tile, tile) }

\* has_meaningful_content(image, tile_size, variance_threshold,
\* min_informative_tiles): the decision and the statistics it rests on.
has_meaningful_content(image, tile, threshold, min_tiles) ==
    LET origins == TileOrigins(image, tile)
        informative == { o \in origins : TileVar(image, o[1], o[2], tile) > threshold }
    IN  [ has_content |-> Cardinality(informative) >= min_tiles,
          total_tiles |-> Cardinality(origins),
          informative_tiles |-> Cardinality(informative) ]

----------------------------------------------------------------------------
(* Direct calls of the classifier: every input within the bounds. *)

NoProbe == [op |-> "none"]

Probes ==
    [ op : {"has_meaningful_content"},
      image : { Image(w, h, t) : w \in 1..MaxDim, h \in 1..MaxDim, t \in Textures },
      tile_size : 1..MaxTile,
      variance_threshold : {0, 6, 100},
      min_informative_tiles : 0..MaxMinTiles ]

Classify ==
    /\ probe.op = "has_meaningful_content"
    /\ probe_out = NoProbe
    /\ probe_out' = [op |-> "returned"] @@
                    has_meaningful_content(probe.image, probe.tile_size,
                        probe.variance_threshold, probe.min_informative_tiles)
    /\ UNCHANGED <<probe, pipeVars, serverVars, handles>>

----------------------------------------------------------------------------
(* PDF documents.  A document either cannot be parsed or is a sequence of  *)
(* pages; a page has a size in points and a content, "corrupt" for a page  *)
(* whose rendering raises.                                                 *)

Page(w, h, c) == [w_pt |-> w, h_pt |-> h, content |-> c]

PdfPages ==
    { Page(595, 842, "text"), Page(595, 842, "blank"),
      Page(216, 144, "text"), Page(14, 14, "text"), Page(595, 842, "corrupt") }

Unparsable == [parsable |-> FALSE, pages |-> <<>>]

Pdfs ==
    {Unparsable} \cup
    { [parsable |-> TRUE, pages |-> s] :
        s \in UNION { [1..n -> PdfPages] : n \in 0..MaxPages } }

\* ceil(a / b) for a >= 0, b > 0
CeilDiv(a, b) == (a + b - 1) \div b

\* page.render(scale = dpi / 72.0).to_pil(), converted to RGB
Render(page) ==
    Image(CeilDiv(page.w_pt * DPI, 72), CeilDiv(page.h_pt * DPI, 72), page.content)

----------------------------------------------------------------------------
(* Text: a string is a sequence of one-character strings. *)

Whitespace == {" ", "\n", "\t", "\r"}

RECURSIVE LStrip(_)
LStrip(s) ==
    IF s # <<>> /\ Head(s) \in Whitespace THEN LStrip(Tail(s)) ELSE s

RECURSIVE RStrip(_)
RStrip(s) ==
    IF s # <<>> /\ s[Len(s)] \in Whitespace THEN RStrip(SubSeq(s, 1, Len(s) - 1)) ELSE s

\* Mutant of Strip: only leading whitespace is removed.
Strip_LeftOnly(s) == LStrip(s)

\* str.strip()
Strip(s) == RStrip(LStrip(s))

\* len(s.split()): the number of maximal runs of non-whitespace characters
WordCount(s) ==
    Cardinality({ i \in 1..Len(s) :
        /\ s[i] \notin Whitespace
        /\ (i = 1 \/ s[i - 1] \in Whitespace) })

\* str(n) for n >= 0
RECURSIVE Decimal(_)
Decimal(n) ==
    LET digit == <<"0", "1", "2", "3", "4", "5", "6", "7", "8", "9">>[(n % 10) + 1]
    IN  IF n < 10 THEN <<digit>> ELSE Decimal(n \div 10) \o <<digit>>

Separator == <<"\n", "\n", "-", "-", "-", "\n", "\n">>

\* f"<!-- Page {page_num} -->\n\n"
PageMarker(n) ==
    <<"<", "!", "-", "-", " ", "P", "a", "g", "e", " ">> \o Decimal(n)
        \o <<" ", "-", "-", ">", "\n", "\n">>

\* the parts images_to_markdown appends for entries n.. of ocr_results
RECURSIVE MarkdownFrom(_, _)
MarkdownFrom(texts, n) ==
    IF n > Len(texts) THEN <<>>
    ELSE (IF n > 1 THEN Separator ELSE <<>>)
         \o PageMarker(n) \o Strip(texts[n]) \o MarkdownFrom(texts, n + 1)

images_to_markdown(texts) == MarkdownFrom(texts, 1)

(* Direct calls of the assembler: every sequence of up to MaxTexts texts. *)

TextSamples ==
    { <<>>, <<" ">>, <<"a">>, <<" ", "a", "\n">>, <<"a", " ", "b">>,
      <<"\n", "a", "\t">> }

AssembleProbes ==
    [ op : {"images_to_markdown"},
      ocr_results : UNION { [1..n -> TextSamples] : n \in 0..MaxTexts } ]

Assemble ==
    /\ probe.op = "images_to_markdown"
    /\ probe_out = NoProbe
    /\ probe_out' = [op |-> "returned",
                     markdown |-> images_to_markdown(probe.ocr_results)]
    /\ UNCHANGED <<probe, pipeVars, serverVars, handles>>

----------------------------------------------------------------------------
(* Image normalisation and the OCR engine *)

\* 2^n mod m
RECURSIVE Pow2Mod(_, _)
Pow2Mod(n, m) == IF n = 0 THEN 1 % m ELSE (2 * Pow2Mod(n - 1, m)) % m

\* the least e >= from with 2^e * num >= den
RECURSIVE BinExp(_, _, _)
BinExp(num, den, from) ==
    IF (2 ^ from) * num >= den THEN from ELSE BinExp(num, den, from + 1)

\* the least c >= from with 2^c >= k
RECURSIVE CeilLog2(_, _)
CeilLog2(k, from) == IF 2 ^ from >= k THEN from ELSE CeilLog2(k, from + 1)

\* int(a * (num / den)) in IEEE-754 double arithmetic, for 1 <= num < den
\* and 1 <= a.  The quotient num / den is rounded to 53 bits (round half to
\* even), the product is rounded again, and int() truncates.  When den does
\* not divide a * num the roundings cannot move the product across an
\* integer and the result is floor(a * num / den).  When it does, the exact
\* product is the integer k, and the result is k - 1 iff the quotient was
\* rounded down by more than half a unit in the last place of the product
\* just below k.  r is the remainder of num * 2^(52+e) by den, that is the
\* part of the quotient's mantissa the rounding drops.
\* round(a * num / den) in place of int(a * (num / den))
ScaleTrunc_Nearest(a, num, den) == (2 * a * num + den) \div (2 * den)

ScaleTrunc(a, num, den) ==
    LET k == (a * num) \div den
        e == BinExp(num, den, 1)
        r == (num * Pow2Mod(52 + e, den)) % den
        floor_odd == (num * Pow2Mod(52 + e, 2 * den)) % (2 * den) >= den
        rounded_down == (r > 0 /\ 2 * r < den) \/ (2 * r = den /\ ~floor_odd)
    IN  IF (a * num) % den # 0 \/ ~rounded_down
        THEN k
        ELSE IF 2 * a * r > (2 ^ (CeilLog2(k, 0) + e - 1)) * den THEN k - 1 ELSE k

optimize_image_for_ocr(image, max) ==
    IF (IF image.width > image.height THEN image.width ELSE image.height) > max
    THEN IF image.width > image.height
         THEN Image(max, ScaleTrunc(image.height, max, image.width), image.texture)
         ELSE Image(ScaleTrunc(image.width, max, image.height), max, image.texture)
    ELSE image

\* Sizes the normalizer is called on directly: every small size against
\* every small limit, and rendered page sizes against the default limit.
NormSamples ==
    [ image : { Image(w, h, "text") : w \in 1..MaxNormDim, h \in 1..MaxNormDim },
      max_size : 1..MaxNormSize ]
    \cup
    [ image : { Image(2244, 1122, "text"), Image(2215, 2215, "text"),
                Image(2480, 3508, "text"), Image(1654, 2339, "text"),
                Image(5000, 1, "text") },
      max_size : {max_size} ]

NormProbes ==
    { [op |-> "optimize_image_for_ocr", image |-> c.image, max_size |-> c.max_size] :
        c \in NormSamples }

\* One call of optimize_image_for_ocr: the size handed to image.resize, or
\* the size of the unchanged image.
Normalize ==
    /\ probe.op = "optimize_image_for_ocr"
    /\ probe_out = NoProbe
    /\ probe_out' =
          LET out == optimize_image_for_ocr(probe.image, probe.max_size)
          IN  [op |-> "returned", width |-> out.width, height |-> out.height]
    /\ UNCHANGED <<probe, pipeVars, serverVars, handles>>

\* What the vision-language model generates for an image (do_sample=False:
\* the same image gives the same text).
EngineText(image) ==
    CASE image.texture = "text" /\ image.width >= 1000 -> <<" ", "a", " ", "b", "\n">>
      [] image.texture = "text" /\ image.width < 1000  -> <<"c">>
      [] OTHER -> <<"\n">>

----------------------------------------------------------------------------
(* Requests *)

Reqs == {"r1", "r2"}
None == "none"

\* the file name compared as uploaded, without .lower()
Lower_Identity(s) == s

\* str.lower() on the characters file names are drawn from
Lower(s) ==
    [ i \in 1..Len(s) |->
        CASE s[i] = "P" -> "p" [] s[i] = "D" -> "d" [] s[i] = "F" -> "f"
          [] s[i] = "A" -> "a" [] OTHER -> s[i] ]

\* str.endswith(suffix)
EndsWith(s, suffix) ==
    /\ Len(s) >= Len(suffix)
    /\ SubSeq(s, Len(s) - Len(suffix) + 1, Len(s)) = suffix

DotPdf == <<".", "p", "d", "f">>

Filenames ==
    { <<"a", ".", "p", "d", "f">>, <<"A", ".", "P", "D", "F">>,
      <<"a", ".", "t", "x", "t">>, <<"p", "d", "f">> }

DataUriPrefix == "data:application/pdf;base64,"

\* The text after the first comma of a message content, as base64.b64decode
\* sees it: characters outside the base64 alphabet are discarded; what is
\* left either has a valid length and padding and decodes to bytes, or
\* makes the decoder raise binascii.Error.
Payloads ==
    [alphabet_only : BOOLEAN, padded : {TRUE}, bytes : Pdfs] \cup
    [alphabet_only : BOOLEAN, padded : {FALSE}, bytes : {Unparsable}]

\* message.content: the text up to and including the first comma, and the rest
Content(h, p) == [head |-> h, payload |-> p]

Greeting == Content("hello world", [alphabet_only |-> FALSE, padded |-> FALSE,
                                    bytes |-> Unparsable])

Contents == {Greeting} \cup { Content(DataUriPrefix, p) : p \in Payloads }

OcrRequests ==
    [endpoint : {"ocr"}, filename : Filenames, skip_blank : BOOLEAN, file : Pdfs]

ChatRequests ==
    [endpoint : {"chat"},
     messages : {<<>>} \cup { <<c>> : c \in Contents }
                       \cup { <<Greeting, c>> : c \in Contents }
                       \cup { <<c, Greeting>> : c \in Contents }]

NoRequest == [endpoint |-> "none"]
NoBytes == [parsable |-> FALSE, pages |-> <<"unset">>]
NoResult == [kind |-> "none"]
Raised == [kind |-> "raised"]
NoResponse == [status |-> 0]

\* the exceptions the handlers see
HTTPException(code, why) == [exc |-> "HTTPException", status |-> code, detail |-> why]
ValueError(why) == [exc |-> "ValueError", status |-> 0, detail |-> why]

\* The error response FastAPI sends for an HTTPException that leaves a handler.
ErrorResponse(e) == [status |-> e.status, detail |-> e.detail]

----------------------------------------------------------------------------
(* Initial states *)

\* The module globals once lifespan has loaded the model, its processor
\* and the PDF processor; the server takes requests from then on.
Loaded == [model |-> "PaddleOCR-VL", processor |-> "AutoProcessor",
           pdf_processor |-> "PDFProcessor"]

IdleServer ==
    /\ handles = Loaded
    /\ running = None
    /\ pc = [r \in Reqs |-> "absent"]
    /\ req = [r \in Reqs |-> NoRequest]
    /\ pdf_bytes = [r \in Reqs |-> NoBytes]
    /\ total_pages = [r \in Reqs |-> 0]
    /\ page_num = [r \in Reqs |-> 0]
    /\ images = [r \in Reqs |-> <<>>]
    /\ page_numbers = [r \in Reqs |-> <<>>]
    /\ all_stats = [r \in Reqs |-> <<>>]
    /\ result = [r \in Reqs |-> NoResult]
    /\ ocr_results = [r \in Reqs |-> <<>>]
    /\ response = [r \in Reqs |-> NoResponse]
    /\ engine_calls = <<>>
    /\ classify_calls = [r \in Reqs |-> 0]

\* One request has arrived at the started server.
Init ==
    /\ handles = Loaded
    /\ probe = NoProbe
    /\ probe_out = NoProbe
    /\ running = None
    /\ \E q \in OcrRequests \cup ChatRequests :
         /\ req = [r \in Reqs |-> IF r = "r1" THEN q ELSE NoRequest]
         /\ pc = [r \in Reqs |-> IF r = "r1" THEN "start" ELSE "absent"]
    /\ pdf_bytes = [r \in Reqs |-> NoBytes]
    /\ total_pages = [r \in Reqs |-> 0]
    /\ page_num = [r \in Reqs |-> 0]
    /\ images = [r \in Reqs |-> <<>>]
    /\ page_numbers = [r \in Reqs |-> <<>>]
    /\ all_stats = [r \in Reqs |-> <<>>]
    /\ result = [r \in Reqs |-> NoResult]
    /\ ocr_results = [r \in Reqs |-> <<>>]
    /\ response = [r \in Reqs |-> NoResponse]
    /\ engine_calls = <<>>
    /\ classify_calls = [r \in Reqs |-> 0]

\* The classifier is called directly on one image.
InitClassify ==
    /\ probe \in Probes
    /\ probe_out = NoProbe
    /\ IdleServer

----------------------------------------------------------------------------
(* The handlers' except clauses *)

\* ocr_endpoint: except Exception -> HTTPException(500, str(e)).
\* chat_completions: except HTTPException: raise; except Exception -> 500.
Translate(endpoint, e) ==
    IF endpoint = "chat" /\ e.exc = "HTTPException"
    THEN e
    ELSE HTTPException(500, e.detail)

\* An exception e raised inside request r's try block ends the request.
Fails(r, e) ==
    /\ response' = [response EXCEPT ![r] = ErrorResponse(Translate(req[r].endpoint, e))]
    /\ pc' = [pc EXCEPT ![r] = "done"]
    /\ running' = None

\* Mutant of SkipBlank: the /ocr handler ignores its skip_blank flag.
SkipBlank_Always(r) == TRUE

\* Mutant of SkipBlank: chat_completions passes skip_blank=False.
SkipBlank_ChatKeepsAll(r) == IF req[r].endpoint = "ocr" THEN req[r].skip_blank ELSE FALSE

\* the skip_blank argument of the handler's pdf_to_images call
SkipBlank(r) == IF req[r].endpoint = "ocr" THEN req[r].skip_blank ELSE TRUE

----------------------------------------------------------------------------
(* POST /ocr up to its await *)

OcrStart(r) ==
    /\ running = None
    /\ pc[r] = "start"
    /\ req[r].endpoint = "ocr"
    /\ IF ~EndsWith(Lower(req[r].filename), DotPdf)
       THEN /\ response' = [response EXCEPT ![r] =
                   ErrorResponse(HTTPException(400, "Only PDF files are supported"))]
            /\ pc' = [pc EXCEPT ![r] = "done"]
       ELSE /\ pc' = [pc EXCEPT ![r] = "reading"]
            /\ UNCHANGED response
    /\ UNCHANGED <<handles, probeVars, pipeVars, running, req, pdf_bytes, result, ocr_results,
                   engine_calls, classify_calls>>

\* await file.read() completes and the coroutine is resumed
OcrRead(r) ==
    /\ running = None
    /\ pc[r] = "reading"
    /\ running' = r
    /\ pdf_bytes' = [pdf_bytes EXCEPT ![r] = req[r].file]
    /\ pc' = [pc EXCEPT ![r] = "pdf_open"]
    /\ UNCHANGED <<handles, probeVars, pipeVars, req, result, ocr_results, response,
                   engine_calls, classify_calls>>

(* POST /v1/chat/completions up to its pdf_to_images call *)

ChatStart(r) ==
    /\ running = None
    /\ pc[r] = "start"
    /\ req[r].endpoint = "chat"
    /\ IF req[r].messages = <<>>
       THEN /\ Fails(r, HTTPException(400, "No messages provided"))
            /\ UNCHANGED pdf_bytes
       ELSE LET content == req[r].messages[Len(req[r].messages)]
            IN  IF content.head # DataUriPrefix
                THEN /\ Fails(r, HTTPException(400, "Content must be a base64-encoded PDF"))
                     /\ UNCHANGED pdf_bytes
                ELSE IF ~content.payload.padded
                THEN /\ Fails(r, ValueError("Incorrect padding"))
                     /\ UNCHANGED pdf_bytes
                ELSE /\ pdf_bytes' = [pdf_bytes EXCEPT ![r] = content.payload.bytes]
                     /\ pc' = [pc EXCEPT ![r] = "pdf_open"]
                     /\ running' = r
                     /\ UNCHANGED response
    /\ UNCHANGED <<handles, probeVars, pipeVars, req, result, ocr_results, engine_calls,
                   classify_calls>>

----------------------------------------------------------------------------
(* pdf_to_images *)

\* images = [], ..., pdf = pdfium.PdfDocument(pdf_bytes), total_pages = len(pdf)
PdfOpen(r) ==
    /\ running = r
    /\ pc[r] = "pdf_open"
    /\ images' = [images EXCEPT ![r] = <<>>]
    /\ page_numbers' = [page_numbers EXCEPT ![r] = <<>>]
    /\ all_stats' = [all_stats EXCEPT ![r] = <<>>]
    /\ page_num' = [page_num EXCEPT ![r] = 0]
    /\ IF ~pdf_bytes[r].parsable
       THEN /\ result' = [result EXCEPT ![r] = Raised]
            /\ Fails(r, ValueError("Unable to process PDF"))
            /\ UNCHANGED total_pages
       ELSE /\ total_pages' = [total_pages EXCEPT ![r] = Len(pdf_bytes[r].pages)]
            /\ pc' = [pc EXCEPT ![r] = "render"]
            /\ UNCHANGED <<result, response, running>>
    /\ UNCHANGED <<handles, probeVars, req, pdf_bytes, ocr_results, engine_calls, classify_calls>>

\* Mutant of RenderPage: the statistics are appended after the blank check,
\* so only retained pages get an entry.
RenderPage_StatsOnlyKept(r) ==
    /\ running = r
    /\ pc[r] = "render"
    /\ page_num[r] < total_pages[r]
    /\ LET page == pdf_bytes[r].pages[page_num[r] + 1]
           pil_image == Render(page)
           stats == has_meaningful_content(pil_image, tile_size, variance_threshold,
                                           min_informative_tiles)
       IN  IF page.content = "corrupt"
           THEN /\ result' = [result EXCEPT ![r] = Raised]
                /\ Fails(r, ValueError("Unable to process PDF"))
                /\ UNCHANGED <<page_num, images, page_numbers, all_stats, classify_calls>>
           ELSE /\ page_num' = [page_num EXCEPT ![r] = @ + 1]
                /\ IF req[r].endpoint = "chat" \/ req[r].skip_blank
                   THEN classify_calls' = [classify_calls EXCEPT ![r] = @ + 1]
                   ELSE UNCHANGED classify_calls
                /\ IF (req[r].endpoint = "chat" \/ req[r].skip_blank) /\ ~stats.has_content
                   THEN UNCHANGED <<images, page_numbers, all_stats>>
                   ELSE /\ images' = [images EXCEPT ![r] = Append(@, pil_image)]
                        /\ page_numbers' = [page_numbers EXCEPT ![r] =
                               Append(@, page_num[r] + 1)]
                        /\ IF req[r].endpoint = "chat" \/ req[r].skip_blank
                           THEN all_stats' = [all_stats EXCEPT ![r] =
                                    Append(@, stats @@ [page_number |-> page_num[r] + 1])]
                           ELSE UNCHANGED all_stats
                /\ UNCHANGED <<result, response, pc, running>>
    /\ UNCHANGED <<handles, probeVars, total_pages, req, pdf_bytes, ocr_results, engine_calls>>

\* Mutant of RenderPage: the image is appended before the blank check, the
\* page number after it.
RenderPage_ImageBeforeCheck(r) ==
    /\ running = r
    /\ pc[r] = "render"
    /\ page_num[r] < total_pages[r]
    /\ LET page == pdf_bytes[r].pages[page_num[r] + 1]
           pil_image == Render(page)
           stats == has_meaningful_content(pil_image, tile_size, variance_threshold,
                                           min_informative_tiles)
           skip == req[r].endpoint = "chat" \/ req[r].skip_blank
       IN  IF page.content = "corrupt"
           THEN /\ result' = [result EXCEPT ![r] = Raised]
                /\ Fails(r, ValueError("Unable to process PDF"))
                /\ UNCHANGED <<page_num, images, page_numbers, all_stats, classify_calls>>
           ELSE /\ page_num' = [page_num EXCEPT ![r] = @ + 1]
                /\ images' = [images EXCEPT ![r] = Append(@, pil_image)]
                /\ IF skip
                   THEN /\ classify_calls' = [classify_calls EXCEPT ![r] = @ + 1]
                        /\ all_stats' = [all_stats EXCEPT ![r] =
                               Append(@, stats @@ [page_number |-> page_num[r] + 1])]
                   ELSE UNCHANGED <<classify_calls, all_stats>>
                /\ IF skip /\ ~stats.has_content
                   THEN UNCHANGED page_numbers
                   ELSE page_numbers' = [page_numbers EXCEPT ![r] =
                               Append(@, page_num[r] + 1)]
                /\ UNCHANGED <<result, response, pc, running>>
    /\ UNCHANGED <<handles, probeVars, total_pages, req, pdf_bytes, ocr_results, engine_calls>>

\* Mutant of RenderPage: a page that fails to render is left out and the
\* loop goes on.
RenderPage_SkipCorrupt(r) ==
    /\ running = r
    /\ pc[r] = "render"
    /\ page_num[r] < total_pages[r]
    /\ LET page == pdf_bytes[r].pages[page_num[r] + 1]
           pil_image == Render(page)
           stats == has_meaningful_content(pil_image, tile_size, variance_threshold,
                                           min_informative_tiles)
           skip == req[r].endpoint = "chat" \/ req[r].skip_blank
       IN  /\ page_num' = [page_num EXCEPT ![r] = @ + 1]
           /\ IF page.content = "corrupt"
              THEN UNCHANGED <<images, page_numbers, all_stats, classify_calls>>
              ELSE /\ IF skip
                      THEN /\ classify_calls' = [classify_calls EXCEPT ![r] = @ + 1]
                           /\ all_stats' = [all_stats EXCEPT ![r] =
                                  Append(@, stats @@ [page_number |-> page_num[r] + 1])]
                      ELSE UNCHANGED <<classify_calls, all_stats>>
                   /\ IF skip /\ ~stats.has_content
                      THEN UNCHANGED <<images, page_numbers>>
                      ELSE /\ images' = [images EXCEPT ![r] = Append(@, pil_image)]
                           /\ page_numbers' = [page_numbers EXCEPT ![r] =
                                  Append(@, page_num[r] + 1)]
           /\ UNCHANGED <<result, response, pc, running>>
    /\ UNCHANGED <<handles, probeVars, total_pages, req, pdf_bytes, ocr_results, engine_calls>>

\* one iteration of: for page_num in range(total_pages)
RenderPage(r) ==
    /\ running = r
    /\ pc[r] = "render"
    /\ page_num[r] < total_pages[r]
    /\ LET page == pdf_bytes[r].pages[page_num[r] + 1]
           pil_image == Render(page)
           stats == has_meaningful_content(pil_image, tile_size, variance_threshold,
                                           min_informative_tiles)
       IN  IF page.content = "corrupt"
           THEN /\ result' = [result EXCEPT ![r] = Raised]
                /\ Fails(r, ValueError("Unable to process PDF"))
                /\ UNCHANGED <<page_num, images, page_numbers, all_stats, classify_calls>>
           ELSE /\ page_num' = [page_num EXCEPT ![r] = @ + 1]
                /\ IF SkipBlank(r)
                   THEN /\ classify_calls' = [classify_calls EXCEPT ![r] = @ + 1]
                        /\ all_stats' = [all_stats EXCEPT ![r] =
                               Append(@, stats @@ [page_number |-> page_num[r] + 1])]
                   ELSE UNCHANGED <<classify_calls, all_stats>>
                /\ IF SkipBlank(r) /\ ~stats.has_content
                   THEN UNCHANGED <<images, page_numbers>>
                   ELSE /\ images' = [images EXCEPT ![r] = Append(@, pil_image)]
                        /\ page_numbers' = [page_numbers EXCEPT ![r] =
                               Append(@, page_num[r] + 1)]
                /\ UNCHANGED <<result, response, pc, running>>
    /\ UNCHANGED <<handles, probeVars, total_pages, req, pdf_bytes, ocr_results, engine_calls>>

\* the loop is over: return images, page_numbers, all_stats; the handler
\* takes them and starts its OCR loop with ocr_results = []
PdfReturn(r) ==
    /\ running = r
    /\ pc[r] = "render"
    /\ page_num[r] >= total_pages[r]
    /\ result' = [result EXCEPT ![r] =
           [kind |-> "returned", images |-> images[r],
            page_numbers |-> page_numbers[r], page_stats |-> all_stats[r]]]
    /\ ocr_results' = [ocr_results EXCEPT ![r] = <<>>]
    /\ pc' = [pc EXCEPT ![r] = "ocr_loop"]
    /\ UNCHANGED <<handles, probeVars, pipeVars, running, req, pdf_bytes, response,
                   engine_calls, classify_calls>>

----------------------------------------------------------------------------
(* The handlers after pdf_to_images has returned *)

Min(a, b) == IF a < b THEN a ELSE b

\* the number of pairs of zip(images, page_numbers)
ZipLen(r) == Min(Len(result[r].images), Len(result[r].page_numbers))

\* Mutant of OcrPage: an engine failure is swallowed, the page contributes
\* an empty text and the loop goes on.
OcrPage_SwallowFailure(r) ==
    /\ running = r
    /\ pc[r] = "ocr_loop"
    /\ Len(ocr_results[r]) < ZipLen(r)
    /\ LET idx == Len(ocr_results[r]) + 1
           optimized_image == optimize_image_for_ocr(result[r].images[idx], max_size)
       IN  \E engine_ok \in BOOLEAN :
             /\ engine_calls' = Append(engine_calls,
                    [request |-> r, page_num |-> result[r].page_numbers[idx],
                     image |-> optimized_image, task |-> "ocr", ok |-> engine_ok])
             /\ ocr_results' = [ocr_results EXCEPT ![r] =
                    Append(@, IF engine_ok THEN EngineText(optimized_image) ELSE <<>>)]
             /\ UNCHANGED <<response, pc, running>>
    /\ UNCHANGED <<handles, probeVars, pipeVars, req, pdf_bytes, result, classify_calls>>

\* Mutant of OcrPage: the text is inserted at the front of ocr_results.
OcrPage_Prepend(r) ==
    /\ running = r
    /\ pc[r] = "ocr_loop"
    /\ Len(ocr_results[r]) < ZipLen(r)
    /\ LET idx == Len(ocr_results[r]) + 1
           optimized_image == optimize_image_for_ocr(result[r].images[idx], max_size)
       IN  \E engine_ok \in BOOLEAN :
             /\ engine_calls' = Append(engine_calls,
                    [request |-> r, page_num |-> result[r].page_numbers[idx],
                     image |-> optimized_image, task |-> "ocr", ok |-> engine_ok])
             /\ IF engine_ok
                THEN /\ ocr_results' = [ocr_results EXCEPT ![r] =
                            <<EngineText(optimized_image)>> \o @]
                     /\ UNCHANGED <<response, pc, running>>
                ELSE /\ Fails(r, HTTPException(500, "OCR error"))
                     /\ UNCHANGED ocr_results
    /\ UNCHANGED <<handles, probeVars, pipeVars, req, pdf_bytes, result, classify_calls>>

\* Mutant of OcrPage: run_ocr_on_image is awaited, so the event loop is
\* free between two pages of a request.
OcrPage_Yields(r) ==
    /\ running \in {r, None}
    /\ pc[r] = "ocr_loop"
    /\ Len(ocr_results[r]) < ZipLen(r)
    /\ LET idx == Len(ocr_results[r]) + 1
           optimized_image == optimize_image_for_ocr(result[r].images[idx], max_size)
       IN  /\ engine_calls' = Append(engine_calls,
                  [request |-> r, page_num |-> result[r].page_numbers[idx],
                   image |-> optimized_image, task |-> "ocr", ok |-> TRUE])
           /\ ocr_results' = [ocr_results EXCEPT ![r] =
                  Append(@, EngineText(optimized_image))]
           /\ running' = None
           /\ UNCHANGED <<response, pc>>
    /\ UNCHANGED <<handles, probeVars, pipeVars, req, pdf_bytes, result, classify_calls>>

\* One iteration of the OCR loop: optimize_image_for_ocr(image), then
\* run_ocr_on_image(optimized_image), which returns the generated text or
\* raises HTTPException(500) when the engine fails.
OcrPage(r) ==
    /\ running = r
    /\ pc[r] = "ocr_loop"
    /\ Len(ocr_results[r]) < ZipLen(r)
    /\ LET idx == Len(ocr_results[r]) + 1
           optimized_image == optimize_image_for_ocr(result[r].images[idx], max_size)
       IN  \E engine_ok \in BOOLEAN :
             /\ engine_calls' = Append(engine_calls,
                    [request |-> r, page_num |-> result[r].page_numbers[idx],
                     image |-> optimized_image, task |-> "ocr", ok |-> engine_ok])
             /\ IF engine_ok
                THEN /\ ocr_results' = [ocr_results EXCEPT ![r] =
                            Append(@, EngineText(optimized_image))]
                     /\ UNCHANGED <<response, pc, running>>
                ELSE /\ Fails(r, HTTPException(500, "OCR error"))
                     /\ UNCHANGED ocr_results
    /\ UNCHANGED <<handles, probeVars, pipeVars, req, pdf_bytes, result, classify_calls>>

\* [stat['page_number'] for stat in page_stats if not stat['has_content']]
RECURSIVE SkippedPageNumbers(_)
SkippedPageNumbers(stats) ==
    IF stats = <<>> THEN <<>>
    ELSE (IF ~Head(stats).has_content THEN <<Head(stats).page_number>> ELSE <<>>)
         \o SkippedPageNumbers(Tail(stats))

\* Mutant of OcrPayload: the total is always taken from the retained images.
OcrPayload_TotalFromImages(res, texts) ==
    LET total == Len(res.images)
        markdown_text == images_to_markdown(texts)
    IN  [ status |-> 200,
          success |-> TRUE,
          pages_total |-> total,
          pages_processed |-> Len(res.images),
          pages_skipped |-> total - Len(res.images),
          skipped_pages |-> SkippedPageNumbers(res.page_stats),
          processed_pages |-> res.page_numbers,
          markdown |-> markdown_text,
          total_chars |-> Len(markdown_text),
          page_stats |-> res.page_stats ]

\* the payload ocr_endpoint returns
OcrPayload(res, texts) ==
    LET total == IF res.page_stats # <<>> THEN Len(res.page_stats) ELSE Len(res.images)
        markdown_text == images_to_markdown(texts)
    IN  [ status |-> 200,
          success |-> TRUE,
          pages_total |-> total,
          pages_processed |-> Len(res.images),
          pages_skipped |-> total - Len(res.images),
          skipped_pages |-> SkippedPageNumbers(res.page_stats),
          processed_pages |-> res.page_numbers,
          markdown |-> markdown_text,
          total_chars |-> Len(markdown_text),
          page_stats |-> res.page_stats ]

\* the payload chat_completions returns
ChatPayload(res, texts) ==
    LET markdown_text == images_to_markdown(texts)
    IN  [ status |-> 200,
          object |-> "chat.completion",
          content |-> markdown_text,
          finish_reason |-> "stop",
          prompt_tokens |-> Len(res.images) * 100,
          completion_tokens |-> WordCount(markdown_text),
          total_tokens |-> Len(res.images) * 100 + WordCount(markdown_text) ]

OcrRespond(r) ==
    /\ running = r
    /\ pc[r] = "ocr_loop"
    /\ req[r].endpoint = "ocr"
    /\ Len(ocr_results[r]) >= ZipLen(r)
    /\ response' = [response EXCEPT ![r] = OcrPayload(result[r], ocr_results[r])]
    /\ pc' = [pc EXCEPT ![r] = "done"]
    /\ running' = None
    /\ UNCHANGED <<handles, probeVars, pipeVars, req, pdf_bytes, result, ocr_results,
                   engine_calls, classify_calls>>

ChatRespond(r) ==
    /\ running = r
    /\ pc[r] = "ocr_loop"
    /\ req[r].endpoint = "chat"
    /\ Len(ocr_results[r]) >= ZipLen(r)
    /\ response' = [response EXCEPT ![r] = ChatPayload(result[r], ocr_results[r])]
    /\ pc' = [pc EXCEPT ![r] = "done"]
    /\ running' = None
    /\ UNCHANGED <<handles, probeVars, pipeVars, req, pdf_bytes, result, ocr_results,
                   engine_calls, classify_calls>>

----------------------------------------------------------------------------
(* Specifications *)

Next ==
    \E r \in Reqs :
        \/ OcrStart(r)
        \/ OcrRead(r)
        \/ ChatStart(r)
        \/ PdfOpen(r)
        \/ RenderPage(r)
        \/ PdfReturn(r)
        \/ OcrPage(r)
        \/ OcrRespond(r)
        \/ ChatRespond(r)

Spec == Init /\ [][Next]_vars

\* Two requests are in flight together: an upload to /ocr and either a
\* chat completion or a second upload, each with a short PDF.
PairPages == { Page(595, 842, "text"), Page(595, 842, "blank"), Page(216, 144, "text") }

PairPdfs ==
    { d \in Pdfs : /\ d.parsable
                   /\ Len(d.pages) <= MaxPairPages
                   /\ \A i \in DOMAIN d.pages : d.pages[i] \in PairPages }

PairUploads ==
    { q \in OcrRequests : q.filename = <<"a", ".", "p", "d", "f">> /\ q.file \in PairPdfs }

PairChats ==
    { q \in ChatRequests :
        /\ Len(q.messages) = 1
        /\ q.messages[1].head = DataUriPrefix
        /\ q.messages[1].payload.alphabet_only
        /\ q.messages[1].payload.padded
        /\ q.messages[1].payload.bytes \in PairPdfs }

InitPair ==
    /\ handles = Loaded
    /\ probe = NoProbe
    /\ probe_out = NoProbe
    /\ running = None
    /\ \E q1 \in PairUploads, q2 \in PairChats \cup PairUploads :
         req = [r \in Reqs |-> IF r = "r1" THEN q1 ELSE q2]
    /\ pc = [r \in Reqs |-> "start"]
    /\ pdf_bytes = [r \in Reqs |-> NoBytes]
    /\ total_pages = [r \in Reqs |-> 0]
    /\ page_num = [r \in Reqs |-> 0]
    /\ images = [r \in Reqs |-> <<>>]
    /\ page_numbers = [r \in Reqs |-> <<>>]
    /\ all_stats = [r \in Reqs |-> <<>>]
    /\ result = [r \in Reqs |-> NoResult]
    /\ ocr_results = [r \in Reqs |-> <<>>]
    /\ response = [r \in Reqs |-> NoResponse]
    /\ engine_calls = <<>>
    /\ classify_calls = [r \in Reqs |-> 0]

SpecPair == InitPair /\ [][Next]_vars

\* The assembler is called directly on one list of texts.
InitAssemble ==
    /\ probe \in AssembleProbes
    /\ probe_out = NoProbe
    /\ IdleServer

NextAssemble == Assemble

SpecAssemble == InitAssemble /\ [][NextAssemble]_vars

\* The normalizer is called directly on one image and one limit.
InitNormalize ==
    /\ probe \in NormProbes
    /\ probe_out = NoProbe
    /\ IdleServer

NextNormalize == Normalize

SpecNormalize == InitNormalize /\ [][NextNormalize]_vars

NextClassify == Classify

SpecClassify == InitClassify /\ [][NextClassify]_vars

----------------------------------------------------------------------------
(* Properties *)

Elems(s) == { s[i] : i \in DOMAIN s }

\* request r asks pdf_to_images to drop blank pages
WantsSkip(r) ==
    \/ req[r].endpoint = "chat"
    \/ (req[r].endpoint = "ocr" /\ req[r].skip_blank)

\* the engine calls made for request r, as indices of engine_calls
CallsOf(r) == { i \in DOMAIN engine_calls : engine_calls[i].request = r }

\* C1: for every image of width W and height H and every tile_size T > 0,
\* has_meaningful_content reports total_tiles = floor(W/T) * floor(H/T).
C1_TilePartition ==
    probe_out.op = "returned" =>
        probe_out.total_tiles =
            (probe.image.width \div probe.tile_size)
                * (probe.image.height \div probe.tile_size)

\* C2: an image narrower or lower than one tile yields total_tiles = 0 and
\* has_content = FALSE, whatever variance_threshold and
\* min_informative_tiles are.
C2_DegenerateNoContent ==
    ( /\ probe_out.op = "returned"
      /\ \/ probe.image.width < probe.tile_size
         \/ probe.image.height < probe.tile_size )
    => (probe_out.total_tiles = 0 /\ ~probe_out.has_content)

\* C3: when pdf_to_images returns with skip_blank true on an N-page PDF,
\* all_stats has N entries numbered 1..N in order, each the classifier's
\* verdict on that page, and page p is among the returned page numbers,
\* with its image at the same position, iff that verdict is has_content.
C3_StatsAndRetention ==
    \A r \in Reqs :
        (result[r].kind = "returned" /\ WantsSkip(r)) =>
            LET pages == pdf_bytes[r].pages
                res == result[r]
            IN  /\ Len(res.page_stats) = Len(pages)
                /\ \A p \in 1..Len(pages) :
                     /\ res.page_stats[p].page_number = p
                     /\ res.page_stats[p].has_content =
                            has_meaningful_content(Render(pages[p]), tile_size,
                                variance_threshold, min_informative_tiles).has_content
                     /\ (p \in Elems(res.page_numbers)) <=> res.page_stats[p].has_content
                /\ Len(res.images) = Len(res.page_numbers)
                /\ \A j \in 1..Len(res.page_numbers) :
                     /\ res.page_numbers[j] \in 1..Len(pages)
                     /\ res.images[j] = Render(pages[res.page_numbers[j]])

C3_Witness ==
    \E r \in Reqs :
        /\ result[r].kind = "returned"
        /\ WantsSkip(r)
        /\ Len(pdf_bytes[r].pages) = MaxPages
        /\ result[r].page_numbers # <<>>
        /\ Len(result[r].page_numbers) < Len(result[r].page_stats)

\* C4: after every iteration of the page loop the page numbers are strictly
\* increasing, there is one image per page number, and with skip_blank every
\* page number has an all_stats entry marked has_content.
C4_LoopInvariant ==
    \A r \in Reqs :
        LET pn == page_numbers[r]
        IN  /\ \A i, j \in DOMAIN pn : i < j => pn[i] < pn[j]
            /\ Len(pn) = Len(images[r])
            /\ WantsSkip(r) =>
                 \A i \in DOMAIN pn :
                    \E k \in DOMAIN all_stats[r] :
                        /\ all_stats[r][k].page_number = pn[i]
                        /\ all_stats[r][k].has_content

C4_Witness ==
    \E r \in Reqs :
        /\ pc[r] = "render"
        /\ page_num[r] < total_pages[r]
        /\ Len(page_numbers[r]) >= 1
        /\ Len(all_stats[r]) > Len(page_numbers[r])

\* C5: with skip_blank false the classifier is never invoked, and a
\* successful pdf_to_images returns page numbers 1..N in order, one image
\* each, and no statistics.
C5_NoSkipKeepsAll ==
    \A r \in Reqs :
        (req[r].endpoint = "ocr" /\ ~req[r].skip_blank) =>
            /\ classify_calls[r] = 0
            /\ result[r].kind = "returned" =>
                 LET pages == pdf_bytes[r].pages
                     res == result[r]
                 IN  /\ res.page_numbers = [i \in 1..Len(pages) |-> i]
                     /\ Len(res.images) = Len(pages)
                     /\ \A i \in 1..Len(pages) : res.images[i] = Render(pages[i])
                     /\ res.page_stats = <<>>

C5_Witness ==
    \E r \in Reqs :
        /\ req[r].endpoint = "ocr"
        /\ ~req[r].skip_blank
        /\ result[r].kind = "returned"
        /\ Len(pdf_bytes[r].pages) = MaxPages
        /\ \E i \in DOMAIN pdf_bytes[r].pages : pdf_bytes[r].pages[i].content = "blank"

\* C6: pdf_to_images fails on a PDF with zero pages: it never returns, and
\* no endpoint answers such a document with a success payload.
C6_ZeroPagesFail ==
    \A r \in Reqs :
        (pdf_bytes[r].parsable /\ pdf_bytes[r].pages = <<>>) =>
            (result[r].kind # "returned" /\ response[r].status # 200)

\* C7: if the PDF cannot be parsed or one of its pages fails to render,
\* pdf_to_images returns nothing (whatever it had rendered before), the
\* engine is never called for the request, and the request ends in an error.
C7_AllOrNothing ==
    \A r \in Reqs :
        ( /\ pdf_bytes[r] # NoBytes
          /\ \/ ~pdf_bytes[r].parsable
             \/ \E k \in DOMAIN pdf_bytes[r].pages :
                    pdf_bytes[r].pages[k].content = "corrupt" )
        => /\ result[r].kind # "returned"
           /\ CallsOf(r) = {}
           /\ pc[r] = "done" => (result[r] = Raised /\ response[r].status = 500)

C7_Witness ==
    \E r \in Reqs :
        /\ pc[r] = "done"
        /\ result[r] = Raised
        /\ Len(pdf_bytes[r].pages) = MaxPages
        /\ pdf_bytes[r].pages[MaxPages].content = "corrupt"
        /\ Len(images[r]) >= 1
        /\ response[r].status = 500

\* C8: once the engine has failed on a page of a request, the request has
\* ended with HTTP 500, its response carries no markdown, and no later
\* engine call belongs to that request.
C8_EngineFailureAbandons ==
    \A i \in DOMAIN engine_calls :
        ~engine_calls[i].ok =>
            LET r == engine_calls[i].request
            IN  /\ pc[r] = "done"
                /\ response[r].status = 500
                /\ DOMAIN response[r] = {"status", "detail"}
                /\ \A j \in CallsOf(r) : j <= i

C8_Witness ==
    \E i \in DOMAIN engine_calls :
        /\ i >= 2
        /\ ~engine_calls[i].ok
        /\ engine_calls[i - 1].request = engine_calls[i].request
        /\ Len(result[engine_calls[i].request].images)
               > Cardinality(CallsOf(engine_calls[i].request))
        /\ pc[engine_calls[i].request] = "done"

\* a chat request with no message, a last message without the data-URI
\* prefix, or a payload base64.b64decode rejects
Malformed(q) ==
    /\ q.endpoint = "chat"
    /\ \/ q.messages = <<>>
       \/ q.messages[Len(q.messages)].head # DataUriPrefix
       \/ ~q.messages[Len(q.messages)].payload.padded

\* C9: every malformed chat request is answered with HTTP 400, and neither
\* the page pipeline nor the engine is invoked for it.
C9_MalformedChat400 ==
    \A r \in Reqs :
        (Malformed(req[r]) /\ pc[r] = "done") =>
            /\ response[r].status = 400
            /\ result[r] = NoResult
            /\ CallsOf(r) = {}

\* C10: in every successful /ocr response pages_total is the number of pages
\* of the PDF, processed_pages and skipped_pages are disjoint and together
\* are 1..pages_total, and the three counts agree with the two lists.
C10_PageAccounting ==
    \A r \in Reqs :
        (req[r].endpoint = "ocr" /\ response[r].status = 200) =>
            LET a == response[r]
            IN  /\ a.pages_total = Len(pdf_bytes[r].pages)
                /\ Elems(a.processed_pages) \cap Elems(a.skipped_pages) = {}
                /\ Elems(a.processed_pages) \cup Elems(a.skipped_pages) = 1..a.pages_total
                /\ a.pages_processed = Len(a.processed_pages)
                /\ a.pages_skipped = Len(a.skipped_pages)
                /\ a.pages_skipped = a.pages_total - a.pages_processed

C10_Witness ==
    \E r \in Reqs :
        /\ req[r].endpoint = "ocr"
        /\ response[r].status = 200
        /\ response[r].pages_total = MaxPages
        /\ response[r].pages_skipped >= 1
        /\ response[r].pages_processed >= 1

\* the engine calls made for request r, in the order they were made
CallSeq(r) == SelectSeq(engine_calls, LAMBDA c : c.request = r)

\* the assembled document a success response carries
MarkdownOf(a) == IF "markdown" \in DOMAIN a THEN a.markdown ELSE a.content

\* C11: in a successful request the engine is called exactly once per
\* retained page, in increasing page-number order, with task "ocr", on the
\* normalised image of that page, and the i-th text handed to
\* images_to_markdown is the engine's output for the i-th retained page.
C11_OneCallPerPageInOrder ==
    \A r \in Reqs :
        response[r].status = 200 =>
            LET calls == CallSeq(r)
                res == result[r]
            IN  /\ Len(calls) = Len(res.page_numbers)
                /\ \A i \in DOMAIN calls :
                     /\ calls[i].page_num = res.page_numbers[i]
                     /\ calls[i].task = "ocr"
                     /\ calls[i].ok
                     /\ calls[i].image = optimize_image_for_ocr(res.images[i], max_size)
                /\ \A i, j \in DOMAIN calls : i < j => calls[i].page_num < calls[j].page_num
                /\ Len(ocr_results[r]) = Len(calls)
                /\ \A i \in DOMAIN calls : ocr_results[r][i] = EngineText(calls[i].image)
                /\ MarkdownOf(response[r]) = images_to_markdown(ocr_results[r])

C11_Witness ==
    \E r \in Reqs :
        /\ response[r].status = 200
        /\ result[r].page_numbers = <<1, MaxPages>>
        /\ ocr_results[r][1] # ocr_results[r][2]

\* the characters str.strip() removes from the sample texts
Blank == {" ", "\t", "\n", "\r"}

\* t without its leading and trailing blanks
Trimmed(t) ==
    LET solid == { i \in 1..Len(t) : t[i] \notin Blank }
    IN  IF solid = {} THEN <<>>
        ELSE SubSeq(t, CHOOSE i \in solid : \A j \in solid : i <= j,
                       CHOOSE i \in solid : \A j \in solid : i >= j)

HRule == <<"\n", "\n", "-", "-", "-", "\n", "\n">>

\* the block of the i-th text (i <= 9): its marker, a blank line, the text
Block(texts, i) ==
    <<"<", "!", "-", "-", " ", "P", "a", "g", "e", " ",
      <<"1", "2", "3", "4", "5", "6", "7", "8", "9">>[i],
      " ", "-", "-", ">", "\n", "\n">> \o Trimmed(texts[i])

\* the first n blocks, one rule before each block but the first
RECURSIVE Blocks(_, _)
Blocks(texts, n) ==
    IF n = 0 THEN <<>>
    ELSE Blocks(texts, n - 1) \o (IF n > 1 THEN HRule ELSE <<>>) \o Block(texts, n)

\* the number of places where part occurs in s
Occurrences(part, s) ==
    Cardinality({ i \in 1..(Len(s) - Len(part) + 1) :
                    SubSeq(s, i, i + Len(part) - 1) = part })

\* C12: for n texts images_to_markdown returns n page blocks in input
\* order, the i-th being the marker of position i, a blank line and the
\* trimmed i-th text, with one separator before each block but the first:
\* max(n - 1, 0) separators, none for n = 1, the empty string for n = 0.
C12_AssembledBlocks ==
    probe_out.op = "returned" =>
        LET texts == probe.ocr_results
            n == Len(texts)
        IN  /\ probe_out.markdown = Blocks(texts, n)
            /\ Occurrences(<<"<", "!", "-", "-", " ", "P", "a", "g", "e", " ">>,
                           probe_out.markdown) = n
            /\ Occurrences(HRule, probe_out.markdown) = (IF n = 0 THEN 0 ELSE n - 1)
            /\ n = 0 => probe_out.markdown = <<>>

C12_Witness ==
    /\ probe_out.op = "returned"
    /\ Len(probe.ocr_results) = MaxTexts
    /\ probe.ocr_results[1] = <<"\n", "a", "\t">>
    /\ probe.ocr_results[2] = <<>>
    /\ Occurrences(HRule, probe_out.markdown) = MaxTexts - 1

\* the size the image had and the limit it was normalized to
Larger == IF probe.image.width > probe.image.height
          THEN probe.image.width ELSE probe.image.height

Smaller == IF probe.image.width > probe.image.height
           THEN probe.image.height ELSE probe.image.width

OutLarger == IF probe_out.width > probe_out.height
             THEN probe_out.width ELSE probe_out.height

OutSmaller == IF probe_out.width > probe_out.height
              THEN probe_out.height ELSE probe_out.width

Abs(n) == IF n < 0 THEN -n ELSE n

Normalized == probe.op = "optimize_image_for_ocr" /\ probe_out.op = "returned"

\* C13: an image whose larger dimension is at most max_size is returned
\* with its dimensions unchanged; otherwise the larger dimension of the
\* result is exactly max_size and the smaller one differs from
\* smaller * max_size / larger by less than one pixel, a square image
\* included.
C13_AspectPreserved ==
    Normalized =>
        IF Larger <= probe.max_size
        THEN probe_out.width = probe.image.width
             /\ probe_out.height = probe.image.height
        ELSE /\ OutLarger = probe.max_size
             /\ Abs(OutSmaller * Larger - Smaller * probe.max_size) < Larger

\* C14: for every width >= 1, height >= 1 and max_size >= 1 both
\* dimensions of the size the normalizer resizes to are at least 1.
C14_TargetAtLeastOne ==
    Normalized => probe_out.width >= 1 /\ probe_out.height >= 1

\* C16: when the longer side exceeds max_size, the shorter side of the
\* result is shorter * max_size / longer rounded to the nearest pixel
\* (a value halfway between two pixels may go either way).
C16_ShorterRounded ==
    (Normalized /\ Larger > probe.max_size) =>
        2 * Abs(OutSmaller * Larger - Smaller * probe.max_size) <= Larger

\* C16 as the code has it: when the longer side exceeds max_size, the
\* shorter side of the result is shorter * max_size / longer truncated
\* toward zero and never rounded up; where that quotient is a whole number
\* the double-precision product may fall just below it and give one less.
C16_ShorterTruncated ==
    (Normalized /\ Larger > probe.max_size) =>
        LET exact == Smaller * probe.max_size
        IN  IF exact % Larger # 0
            THEN OutSmaller = exact \div Larger
            ELSE OutSmaller \in { exact \div Larger, (exact \div Larger) - 1 }

\* a downsized image whose exact shorter side lies above the half pixel
C16_Witness ==
    /\ Normalized
    /\ Larger > probe.max_size
    /\ 2 * ((Smaller * probe.max_size) % Larger) > Larger
    /\ OutSmaller = (Smaller * probe.max_size) \div Larger
    /\ OutSmaller >= 1

\* the /ocr requests that have been received
OcrReqs == { r \in Reqs : pc[r] # "absent" /\ req[r].endpoint = "ocr" }

\* nothing of the upload of request r was read, rendered or recognised
Untouched(r) ==
    /\ pdf_bytes[r] = NoBytes
    /\ result[r] = NoResult
    /\ images[r] = <<>>
    /\ classify_calls[r] = 0
    /\ CallsOf(r) = {}

\* C15: POST /ocr responds 400 whenever the uploaded file's name does not
\* end in '.pdf', without reading the file, running the page pipeline or
\* calling the OCR engine; a name that ends in '.pdf' is never rejected
\* with 400.
C15_LiteralSuffix ==
    \A r \in OcrReqs :
        /\ ~EndsWith(req[r].filename, DotPdf) =>
              /\ Untouched(r)
              /\ pc[r] = "done" => response[r].status = 400
        /\ EndsWith(req[r].filename, DotPdf) => response[r].status # 400

\* the last four characters of name are '.pdf' in any mix of cases
PdfSuffixAnyCase(name) ==
    /\ Len(name) >= 4
    /\ name[Len(name) - 3] = "."
    /\ name[Len(name) - 2] \in {"p", "P"}
    /\ name[Len(name) - 1] \in {"d", "D"}
    /\ name[Len(name)] \in {"f", "F"}

\* C15 as the code has it: the suffix is compared without regard to case.
\* POST /ocr responds 400 whenever the lower-cased name does not end in
\* '.pdf', and then nothing is read, rendered or recognised; a name that
\* ends in '.pdf' in any mix of cases is never rejected with 400.
C15_SuffixAnyCase ==
    \A r \in OcrReqs :
        /\ ~PdfSuffixAnyCase(req[r].filename) =>
              /\ Untouched(r)
              /\ pc[r] \in {"start", "done"}
              /\ pc[r] = "done" => response[r].status = 400
        /\ PdfSuffixAnyCase(req[r].filename) => response[r].status # 400

\* an upload named a.txt has been answered with 400
C15_Witness ==
    \E r \in OcrReqs :
        /\ req[r].filename = <<"a", ".", "t", "x", "t">>
        /\ pc[r] = "done"
        /\ response[r].status = 400
        /\ Untouched(r)

\* what request r handed to the engine, call by call
EngineSteps(r) ==
    [ i \in 1..Len(CallSeq(r)) |->
        [page_num |-> CallSeq(r)[i].page_num, image |-> CallSeq(r)[i].image,
         task |-> CallSeq(r)[i].task] ]

\* a is an answered /ocr upload with skip_blank true and b an answered chat
\* completion for the same PDF bytes
SamePdfBothAnswered(a, b) ==
    /\ req[a].endpoint = "ocr" /\ req[a].skip_blank
    /\ req[b].endpoint = "chat"
    /\ pdf_bytes[a] = pdf_bytes[b]
    /\ response[a].status = 200
    /\ response[b].status = 200

\* C17: for the same PDF bytes the chat endpoint's message content equals
\* the markdown POST /ocr returns with skip_blank true, its prompt_tokens
\* are 100 times that response's pages_processed, and both handlers went
\* through the same pipeline, normalize, OCR and assemble steps.
C17_ChatMatchesOcr ==
    \A a, b \in Reqs :
        SamePdfBothAnswered(a, b) =>
            /\ response[b].content = response[a].markdown
            /\ response[b].prompt_tokens = 100 * response[a].pages_processed
            /\ result[b] = result[a]
            /\ classify_calls[b] = classify_calls[a]
            /\ EngineSteps(b) = EngineSteps(a)
            /\ ocr_results[b] = ocr_results[a]

\* both answered a two-page PDF whose blank page was dropped
C17_Witness ==
    \E a, b \in Reqs :
        /\ SamePdfBothAnswered(a, b)
        /\ Len(pdf_bytes[a].pages) = 2
        /\ response[a].pages_processed = 1
        /\ response[b].prompt_tokens = 100
        /\ response[b].content # <<>>

\* the requests whose handler is between its pdf_to_images call and its
\* response
Busy == { r \in Reqs : pc[r] \in {"pdf_open", "render", "ocr_loop"} }

\* C18: with several requests in flight at most one is inside the OCR
\* engine (or anywhere between pdf_to_images and its response) at a time,
\* the OCR calls of one request are contiguous in the order of all OCR
\* calls, and the handlers leave the module-level model, processor and
\* pdf_processor handles as lifespan set them.
C18_OneRequestAtATime ==
    /\ Cardinality(Busy) <= 1
    /\ \A r \in Busy : running = r
    /\ \A i, j, k \in DOMAIN engine_calls :
          (i < j /\ j < k /\ engine_calls[i].request = engine_calls[k].request)
              => engine_calls[j].request = engine_calls[i].request
    /\ handles = Loaded

\* both requests have made OCR calls, one of them more than one, and the
\* second to start waited for the first to be answered
C18_Witness ==
    /\ Len(CallSeq("r1")) >= 1
    /\ Len(CallSeq("r2")) >= 2
    /\ pc["r1"] = "done"
    /\ pc["r2"] = "ocr_loop"
    /\ engine_calls[1].request = "r1"

====
